---- MODULE Spec2Model ----
(***************************************************************************)
(* Inventory application (src/app.py): the product registry, the movement  *)
(* ledger, the stock adjustment handlers, the low-stock e-mail and the     *)
(* report views.  The database is the pair (products, movements); every    *)
(* handler is one request against it.                                      *)
(***************************************************************************)
EXTENDS Integers, Sequences, FiniteSets, TLC

\* ------------------------------------------------------------------ bounds
MaxId     == 2      \* product ids 1..MaxId
MaxMoves  == 2      \* rows of the movement table
MaxQty    == 1      \* adjustments keep quantities in -MaxQty..MaxQty

SKUs      == {"A1", "B2"}
Names     == {"Bolt"}               \* request.form["name"]
Reqs      == {1, 2}                 \* concurrently served requests
Amounts   == {0, 1}                 \* request.form["amount"]
QtyInputs == {0 - 1, 0, 1}          \* request.form["quantity"]
ThrInputs == {0 - 1, 1}             \* request.form["min_threshold"]

VARIABLES products, movements, session, last

vars == <<products, movements, session, last>>

\* ------------------------------------------------------------------ models
\* class Product: one row of the product table (timestamps left out)
Product(sku, name, qty, thr, neg) ==
    [sku |-> sku, name |-> name, quantity |-> qty,
     min_threshold |-> thr, allow_negative |-> neg]

\* class Movement: one row of the movement table (note and timestamp left out)
Movement(pid, delta) == [product_id |-> pid, delta |-> delta]

NoProduct == Product("", "", 0, 0, FALSE)

Max(a, b) == IF a >= b THEN a ELSE b

SetMax(S) == CHOOSE x \in S : \A y \in S : y <= x

\* INTEGER PRIMARY KEY of SQLite: the next rowid is the largest one plus one
NextId == IF DOMAIN products = {} THEN 1 ELSE SetMax(DOMAIN products) + 1

\* Product.movements (the backref): the movement rows of one product
MovementsOf(pid) == {i \in 1..Len(movements) : movements[i].product_id = pid}

\* a request that is not being served
Idle == [pc |-> "idle", op |-> "none", pid |-> 0, amount |-> 0, p |-> NoProduct]

AllIdle == \A r \in Reqs : session[r].pc = "idle"

\* what the last handler step answered: the flash category and how it ended
Answer(op, pid, amount, sku, result, flash, calls, outcome) ==
    [op |-> op, pid |-> pid, amount |-> amount, sku |-> sku,
     result |-> result, flash |-> flash, calls |-> calls,
     outcome |-> outcome, rows |-> <<>>, low |-> <<>>, count |-> 0]

\* Product.query.get_or_404(pid) when the row is missing
NotFound(op, pid) ==
    /\ pid \notin DOMAIN products
    /\ last' = Answer(op, pid, 0, "", "404", "none", 0, "none")
    /\ UNCHANGED <<products, movements, session>>

\* ------------------------------------------------------------------ CRUD
\* POST /product/new
product_new ==
    /\ AllIdle
    /\ \E sku \in SKUs :
          IF \E i \in DOMAIN products : products[i].sku = sku
          THEN /\ last' = Answer("new", 0, 0, sku, "DuplicateSKU", "error", 0, "none")
               /\ UNCHANGED <<products, movements, session>>
          ELSE /\ NextId <= MaxId
               /\ \E name \in Names, qty \in QtyInputs,
                     thr \in ThrInputs, allow_neg \in BOOLEAN :
                     products' = [i \in DOMAIN products \cup {NextId} |->
                                    IF i = NextId
                                    THEN Product(sku, name, qty, Max(0, thr), allow_neg)
                                    ELSE products[i]]
               /\ last' = Answer("new", NextId, 0, sku, "ok", "success", 0, "none")
               /\ UNCHANGED <<movements, session>>

\* the UNIQUE constraint on product.sku, checked by the database at commit
UniqueSku(rows) ==
    \A i, j \in DOMAIN rows : rows[i].sku = rows[j].sku => i = j

\* POST /product/<pid>/edit
product_edit ==
    /\ AllIdle
    /\ \E pid \in 1..MaxId :
          \/ NotFound("edit", pid)
          \/ /\ pid \in DOMAIN products
             /\ \E sku \in SKUs :
                   IF UniqueSku([products EXCEPT ![pid].sku = sku])
                   THEN /\ \E name \in Names, qty \in QtyInputs,
                              thr \in ThrInputs, allow_neg \in BOOLEAN :
                              products' = [products EXCEPT ![pid] =
                                  Product(sku, name, qty, Max(0, thr), allow_neg)]
                        /\ last' = Answer("edit", pid, 0, sku, "ok", "success", 0, "none")
                        /\ UNCHANGED <<movements, session>>
                   ELSE \* IntegrityError out of db.session.commit(): HTTP 500
                        /\ last' = Answer("edit", pid, 0, sku, "crash", "none", 0, "none")
                        /\ UNCHANGED <<products, movements, session>>

\* NULL in movement.product_id
Null == 0

\* db.session.delete(p) at flush: the relationship has no delete cascade, so
\* the rows of Product.movements get product_id = NULL
delete_flush(pid) ==
    [i \in 1..Len(movements) |->
        IF movements[i].product_id = pid
        THEN [movements[i] EXCEPT !.product_id = Null]
        ELSE movements[i]]

\* nullable=False on movement.product_id, checked by the database
NotNull(rows) == \A i \in 1..Len(rows) : rows[i].product_id # Null

\* POST /product/<pid>/delete
product_delete ==
    /\ AllIdle
    /\ \E pid \in 1..MaxId :
          \/ NotFound("delete", pid)
          \/ /\ pid \in DOMAIN products
             /\ IF NotNull(delete_flush(pid))
                THEN /\ products' = [i \in DOMAIN products \ {pid} |-> products[i]]
                     /\ movements' = delete_flush(pid)
                     /\ last' = Answer("delete", pid, 0, "", "ok", "success", 0, "none")
                     /\ UNCHANGED session
                ELSE \* IntegrityError out of db.session.commit(): HTTP 500
                     /\ last' = Answer("delete", pid, 0, "", "crash", "none", 0, "none")
                     /\ UNCHANGED <<products, movements, session>>

\* ------------------------------------------------------------ adjustments
\* the model keeps quantities and the ledger inside the bounds
InBounds(qty) ==
    /\ qty \in (0 - MaxQty)..MaxQty
    /\ Len(movements) < MaxMoves

\* the commit with the sign of the movement lost
adjust_commit_unsigned(pid, p, delta) ==
    /\ products' = [products EXCEPT ![pid].quantity = p.quantity + delta]
    /\ movements' = Append(movements, Movement(pid, IF delta < 0 THEN 0 - delta ELSE delta))

\* p.quantity +=/-= ... ; db.session.add(Movement(...)) ; db.session.commit()
\* p is the row as the request loaded it; the UPDATE writes the new value
adjust_commit(pid, p, delta) ==
    /\ products' = [products EXCEPT ![pid].quantity = p.quantity + delta]
    /\ movements' = Append(movements, Movement(pid, delta))

\* product_add after the row is loaded (lines 227-240)
add_body(r, pid, p, amount) ==
    IF amount <= 0
    THEN /\ last' = Answer("add", pid, amount, "", "InvalidAmount", "error", 0, "none")
         /\ session' = [session EXCEPT ![r] = Idle]
         /\ UNCHANGED <<products, movements>>
    ELSE /\ InBounds(p.quantity + amount)
         /\ adjust_commit(pid, p, amount)
         /\ last' = Answer("add", pid, amount, "", "ok", "success", 0, "none")
         /\ session' = [session EXCEPT ![r] = Idle]

\* the policy test with its negation lost
negative_stock_denied_flipped(p, amount) == p.allow_negative /\ amount > p.quantity

\* the policy test of product_remove, line 253
negative_stock_denied(p, amount) == ~p.allow_negative /\ amount > p.quantity

\* the low-stock test with <= for <
remove_low_or_equal(p) == p.quantity <= p.min_threshold

\* the low-stock test of product_remove, line 262
remove_low(p) == p.quantity < p.min_threshold

\* product_remove after the row is loaded, up to the commit and the
\* low-stock test (lines 246-262, 267-270)
remove_body(r, pid, p, amount) ==
    IF amount <= 0
    THEN /\ last' = Answer("remove", pid, amount, "", "InvalidAmount", "error", 0, "none")
         /\ session' = [session EXCEPT ![r] = Idle]
         /\ UNCHANGED <<products, movements>>
    ELSE IF negative_stock_denied(p, amount)
    THEN /\ last' = Answer("remove", pid, amount, "", "NegativeStockDenied", "error", 0, "none")
         /\ session' = [session EXCEPT ![r] = Idle]
         /\ UNCHANGED <<products, movements>>
    ELSE /\ InBounds(p.quantity - amount)
         /\ adjust_commit(pid, p, 0 - amount)
         /\ IF remove_low(products'[pid])
            THEN /\ session' = [session EXCEPT ![r] =
                       [pc |-> "notify", op |-> "remove", pid |-> pid,
                        amount |-> amount, p |-> products'[pid]]]
                 /\ last' = Answer("remove", pid, amount, "", "committed", "none", 0, "none")
            ELSE /\ session' = [session EXCEPT ![r] = Idle]
                 /\ last' = Answer("remove", pid, amount, "", "ok", "success", 0, "none")

\* POST /product/<pid>/add, served alone
product_add ==
    /\ AllIdle
    /\ \E pid \in 1..MaxId :
          \/ NotFound("add", pid)
          \/ /\ pid \in DOMAIN products
             /\ \E amount \in Amounts : add_body(1, pid, products[pid], amount)

\* POST /product/<pid>/remove, served alone, up to the notifier call
product_remove ==
    /\ AllIdle
    /\ \E pid \in 1..MaxId :
          \/ NotFound("remove", pid)
          \/ /\ pid \in DOMAIN products
             /\ \E amount \in Amounts : remove_body(1, pid, products[pid], amount)

\* send_low_stock_email: False when the SMTP settings are incomplete, True
\* when the message was handed over, an exception out of smtplib otherwise
send_low_stock_email(configured, delivered) ==
    IF ~configured THEN "SkippedConfiguration"
    ELSE IF delivered THEN "Sent"
    ELSE "TransportFailure"

\* the notification step undoing the adjustment when the transport fails
remove_notify_rollback(r) ==
    /\ session[r].pc = "notify"
    /\ \E configured \in BOOLEAN, delivered \in BOOLEAN :
          LET outcome == send_low_stock_email(configured, delivered)
              s == session[r]
          IN  /\ last' = Answer("remove", s.pid, s.amount, "",
                             IF outcome = "TransportFailure" THEN "crash" ELSE "ok",
                             IF outcome = "Sent" THEN "info"
                             ELSE IF outcome = "SkippedConfiguration" THEN "warning"
                             ELSE "none",
                             1, outcome)
              /\ IF outcome = "TransportFailure"
                 THEN /\ products' = [products EXCEPT ![s.pid].quantity = @ + s.amount]
                      /\ movements' = SubSeq(movements, 1, Len(movements) - 1)
                 ELSE UNCHANGED <<products, movements>>
    /\ session' = [session EXCEPT ![r] = Idle]

\* the notification step of product_remove (lines 263-270); a transport that
\* never answers is the behaviour in which this step is never taken
remove_notify(r) ==
    /\ session[r].pc = "notify"
    /\ \E configured \in BOOLEAN, delivered \in BOOLEAN :
          LET outcome == send_low_stock_email(configured, delivered)
              s == session[r]
          IN  last' = Answer("remove", s.pid, s.amount, "",
                             IF outcome = "TransportFailure" THEN "crash" ELSE "ok",
                             IF outcome = "Sent" THEN "info"
                             ELSE IF outcome = "SkippedConfiguration" THEN "warning"
                             ELSE "none",
                             1, outcome)
    /\ session' = [session EXCEPT ![r] = Idle]
    /\ UNCHANGED <<products, movements>>

\* ------------------------------------------------------- concurrent requests
\* p = Product.query.get_or_404(pid) of product_add / product_remove: the
\* request holds its own copy of the row until it commits
adjust_load(r) ==
    /\ session[r].pc = "idle"
    /\ \E op \in {"add", "remove"}, pid \in DOMAIN products, amount \in Amounts :
          session' = [session EXCEPT ![r] =
              [pc |-> "loaded", op |-> op, pid |-> pid, amount |-> amount,
               p |-> products[pid]]]
    /\ UNCHANGED <<products, movements, last>>

\* the rest of product_add, on the copy the request loaded
adjust_add(r) ==
    /\ session[r].pc = "loaded"
    /\ session[r].op = "add"
    /\ add_body(r, session[r].pid, session[r].p, session[r].amount)

\* the rest of product_remove up to the notifier call, on the loaded copy
adjust_remove(r) ==
    /\ session[r].pc = "loaded"
    /\ session[r].op = "remove"
    /\ remove_body(r, session[r].pid, session[r].p, session[r].amount)

\* ------------------------------------------------------------------ views
\* ORDER BY name: 'Bolt' sorts before 'Nut'
NameRank(n) == IF n = "Bolt" THEN 1 ELSE 2

\* Product.query.order_by(Product.name).all(): the ids in an order the
\* database may return (rows of equal name come in any order)
ByName(ids) ==
    {ord \in [1..Cardinality(ids) -> ids] :
        /\ \A i, j \in DOMAIN ord : ord[i] = ord[j] => i = j
        /\ \A i, j \in DOMAIN ord :
              i < j => NameRank(products[ord[i]].name) <= NameRank(products[ord[j]].name)}

\* the ORM object handed to a template
Obj(pid) == [id |-> pid, sku |-> products[pid].sku, name |-> products[pid].name,
             quantity |-> products[pid].quantity,
             min_threshold |-> products[pid].min_threshold,
             allow_negative |-> products[pid].allow_negative]

Objs(ord) == [i \in DOMAIN ord |-> Obj(ord[i])]

View(op, rows, low, count) ==
    [Answer(op, 0, 0, "", "ok", "none", 0, "none")
        EXCEPT !.rows = rows, !.low = low, !.count = count]

\* the filter of index, line 148
index_low(p) == p.quantity < p.min_threshold

\* GET /?q=...: the search matches a SKU or a name
index ==
    /\ AllIdle
    /\ \E q \in {""} \cup SKUs \cup Names :
       LET ids == IF q # ""
                  THEN {i \in DOMAIN products :
                           products[i].name = q \/ products[i].sku = q}
                  ELSE DOMAIN products
       IN  \E ord \in ByName(ids) :
              last' = View("index", Objs(ord), SelectSeq(Objs(ord), index_low), 0)
    /\ UNCHANGED <<products, movements, session>>

\* the filter of report, line 281
report_low(p) == p.quantity < p.min_threshold

\* GET /report
report ==
    /\ AllIdle
    /\ \E ord \in ByName(DOMAIN products) :
          last' = View("report", Objs(ord), SelectSeq(Objs(ord), report_low), Len(ord))
    /\ UNCHANGED <<products, movements, session>>

\* the Status column of the CSV export, line 304
csv_status(p) == IF p.quantity < p.min_threshold THEN "LOW" ELSE "OK"

YesNo(b) == IF b THEN "YES" ELSE "NO"

\* GET /report/download
report_download_csv ==
    /\ AllIdle
    /\ \E ord \in ByName(DOMAIN products) :
          last' = View("csv",
                       [i \in DOMAIN ord |->
                           LET p == products[ord[i]]
                           IN  [sku |-> p.sku, name |-> p.name,
                                quantity |-> p.quantity,
                                min_threshold |-> p.min_threshold,
                                status |-> csv_status(p),
                                allow_negative |-> YesNo(p.allow_negative)]],
                       <<>>, 0)
    /\ UNCHANGED <<products, movements, session>>

\* the Status column with <= for <
pdf_status_or_equal(p) == IF p.quantity <= p.min_threshold THEN "LOW" ELSE "OK"

\* the Status column of the PDF export, line 370
pdf_status(p) == IF p.quantity < p.min_threshold THEN "LOW" ELSE "OK"

\* GET /report/download/pdf: the quantity is drawn red when negative, the
\* status red when LOW and green otherwise
report_download_pdf ==
    /\ AllIdle
    /\ \E ord \in ByName(DOMAIN products) :
          last' = View("pdf",
                       [i \in DOMAIN ord |->
                           LET p == products[ord[i]]
                           IN  [sku |-> p.sku, name |-> p.name,
                                quantity |-> p.quantity,
                                quantity_fill |-> IF p.quantity < 0 THEN "red" ELSE "black",
                                min_threshold |-> p.min_threshold,
                                status |-> pdf_status(p),
                                status_fill |-> IF pdf_status(p) = "LOW" THEN "red" ELSE "green",
                                allow_negative |-> YesNo(p.allow_negative)]],
                       <<>>, 0)
    /\ UNCHANGED <<products, movements, session>>

\* the Status column of the XLSX export, line 436
xlsx_status(p) == IF p.quantity < p.min_threshold THEN "LOW" ELSE "OK"

\* GET /report/download/xlsx
report_download_xlsx ==
    /\ AllIdle
    /\ \E ord \in ByName(DOMAIN products) :
          last' = View("xlsx",
                       [i \in DOMAIN ord |->
                           LET p == products[ord[i]]
                           IN  [sku |-> p.sku, name |-> p.name,
                                quantity |-> p.quantity,
                                min_threshold |-> p.min_threshold,
                                status |-> xlsx_status(p),
                                allow_negative |-> YesNo(p.allow_negative)]],
                       <<>>, 0)
    /\ UNCHANGED <<products, movements, session>>

\* the test of run_stock_check, line 489
stock_check_low(p) == p.quantity < p.min_threshold

\* the loop of run_stock_check over the rows from position i on; acc holds
\* the count, the products the e-mail was attempted for and whether smtplib
\* raised (which ends the request)
RECURSIVE stock_check_loop(_, _, _, _, _)
stock_check_loop(ord, i, configured, delivered, acc) ==
    IF i > Len(ord) THEN acc
    ELSE IF stock_check_low(Obj(ord[i]))
    THEN LET outcome == send_low_stock_email(configured, delivered[ord[i]])
             tried == [acc EXCEPT !.low = Append(@, Obj(ord[i]))]
         IN  IF outcome = "TransportFailure"
             THEN [tried EXCEPT !.raised = TRUE]
             ELSE stock_check_loop(ord, i + 1, configured, delivered,
                     [tried EXCEPT !.count = @ + (IF outcome = "Sent" THEN 1 ELSE 0)])
    ELSE stock_check_loop(ord, i + 1, configured, delivered, acc)

\* GET /admin/run_stock_check
run_stock_check ==
    /\ AllIdle
    /\ \E ord \in ByName(DOMAIN products), configured \in BOOLEAN,
          delivered \in [{i \in DOMAIN products : stock_check_low(Obj(i))} -> BOOLEAN] :
          LET acc == stock_check_loop(ord, 1, configured, delivered,
                         [count |-> 0, low |-> <<>>, raised |-> FALSE])
          IN  last' = [View("stock_check", Objs(ord), acc.low, acc.count)
                          EXCEPT !.result = IF acc.raised THEN "crash" ELSE "ok",
                                 !.flash = IF acc.raised THEN "none" ELSE "info",
                                 !.calls = Len(acc.low)]
    /\ UNCHANGED <<products, movements, session>>

\* ------------------------------------------------------------ specifications
NoAnswer == Answer("none", 0, 0, "", "ok", "none", 0, "none")

\* the database after db.create_all(): both tables empty
Init ==
    /\ products = <<>>
    /\ movements = <<>>
    /\ session = [r \in Reqs |-> Idle]
    /\ last = NoAnswer

\* requests served one at a time
Next ==
    \/ product_new
    \/ product_edit
    \/ product_delete
    \/ product_add
    \/ product_remove
    \/ remove_notify(1)

Spec == Init /\ [][Next]_vars

\* requests served one at a time, without the direct edit of a product: the
\* quantity changes only through product_add and product_remove
NextLedger ==
    \/ product_new
    \/ product_delete
    \/ product_add
    \/ product_remove
    \/ remove_notify(1)

SpecLedger == Init /\ [][NextLedger]_vars

\* a product row that product_new or product_edit can store
ProductRows ==
    {Product(sku, name, qty, thr, neg) :
        sku \in SKUs, name \in Names, qty \in QtyInputs,
        thr \in {Max(0, t) : t \in ThrInputs}, neg \in BOOLEAN}

\* the product tables the registry can hold
Tables ==
    {t \in UNION {[D -> ProductRows] : D \in SUBSET (1..MaxId)} : UniqueSku(t)}

\* the views and the removal handler, over any product table
InitReport ==
    /\ products \in Tables
    /\ movements = <<>>
    /\ session = [r \in Reqs |-> Idle]
    /\ last = NoAnswer

NextReport ==
    \/ index
    \/ report
    \/ report_download_csv
    \/ report_download_pdf
    \/ report_download_xlsx
    \/ run_stock_check
    \/ product_remove
    \/ remove_notify(1)

SpecReport == InitReport /\ [][NextReport]_vars

\* two adjustment requests served at the same time against one product
InitConc ==
    /\ \E qty \in {q \in QtyInputs : q >= 0},
          thr \in {Max(0, t) : t \in ThrInputs}, neg \in BOOLEAN :
          products = <<Product("A1", "Bolt", qty, thr, neg)>>
    /\ movements = <<>>
    /\ session = [r \in Reqs |-> Idle]
    /\ last = NoAnswer

NextConc ==
    \E r \in Reqs :
        \/ adjust_load(r)
        \/ adjust_add(r)
        \/ adjust_remove(r)
        \/ remove_notify(r)

SpecConc == InitConc /\ [][NextConc]_vars

\* ------------------------------------------------------------------ claims
Rejected == {"404", "InvalidAmount", "NegativeStockDenied"}

Low(p) == p.quantity < p.min_threshold

RECURSIVE SumDeltas(_, _)
\* the sum of the deltas of the movements of product pid in the ledger ms
SumDeltas(ms, pid) ==
    IF ms = <<>> THEN 0
    ELSE (IF Head(ms).product_id = pid THEN Head(ms).delta ELSE 0)
         + SumDeltas(Tail(ms), pid)

C2_NotifierCalls ==
    /\ (last.op = "add" \/ last.result \in Rejected)
          => (last.calls = 0 /\ AllIdle)
    /\ (last.op = "remove" /\ last.result = "committed")
          => (session[1].pc = "notify" /\ Low(products[last.pid]))
    /\ (last.op = "remove" /\ last.result \in {"ok", "crash"})
          => /\ AllIdle
             /\ last.calls = IF Low(products[last.pid]) THEN 1 ELSE 0

C2_Witness ==
    /\ last.op = "remove"
    /\ last.result = "ok"
    /\ last.calls = 0
    /\ products[last.pid].quantity = products[last.pid].min_threshold

\* C3: whatever the notifier's outcome (Sent, SkippedConfiguration,
\* TransportFailure), the Remove that invoked it ends as a successful
\* adjustment that reports the outcome as information.
C3_NotifierNeverFatal ==
    (last.op = "remove" /\ last.calls = 1)
        => /\ last.outcome \in {"Sent", "SkippedConfiguration", "TransportFailure"}
           /\ last.result = "ok"
           /\ last.flash \in {"info", "warning"}

\* C4: when the notification attempt of a Remove begins the decrement and
\* the movement are already in the database, and no step taken while or
\* after the notifier runs changes them back.
C4_CommitBeforeNotify ==
    [][ /\ (session[1].pc = "idle" /\ session'[1].pc = "notify")
           => LET s == session'[1]
              IN  /\ products'[s.pid].quantity = products[s.pid].quantity - s.amount
                  /\ movements' = Append(movements, Movement(s.pid, 0 - s.amount))
        /\ (session[1].pc = "notify")
           => /\ products' = products
              /\ movements' = movements ]_vars

C4_Witness ==
    /\ last.op = "remove"
    /\ last.outcome = "TransportFailure"
    /\ Len(movements) > 0
    /\ movements[Len(movements)] = Movement(last.pid, 0 - last.amount)

\* C5: deleting an existing product succeeds whatever the number of its
\* movements, removes the product and all its movements, and no movement in
\* the ledger references a product that does not exist.
C5_DeleteCascades ==
    /\ \A i \in 1..Len(movements) : movements[i].product_id \in DOMAIN products
    /\ (last.op = "delete" /\ last.result # "404")
          => /\ last.result = "ok"
             /\ last.pid \notin DOMAIN products
             /\ MovementsOf(last.pid) = {}

\* C6: an Edit that gives a product the SKU of another existing product is
\* rejected with DuplicateSKU as a user-facing error and changes nothing.
C6_EditDuplicateRejected ==
    [][ ( /\ AllIdle
          /\ last'.op = "edit"
          /\ last'.pid \in DOMAIN products
          /\ \E other \in DOMAIN products \ {last'.pid} :
                products[other].sku = last'.sku )
        => ( /\ last'.result = "DuplicateSKU"
             /\ last'.flash = "error"
             /\ products' = products ) ]_vars

\* C7: adjustments of one product are serialized: every committed Add or
\* Remove starts from the quantity the previous adjustment left, so it moves
\* the stored quantity by exactly its own delta (no lost update) and its
\* policy check is made against the stored quantity.
C7_Serialized ==
    [][ (Len(movements') = Len(movements) + 1)
           => LET m == movements'[Len(movements')]
              IN  /\ products'[m.product_id].quantity
                        = products[m.product_id].quantity + m.delta
                  /\ ~products[m.product_id].allow_negative
                        => 0 - m.delta <= products[m.product_id].quantity ]_vars

\* C8: the listing, the web report, the CSV, PDF and XLSX exports all give
\* a product the status LOW exactly when quantity < min_threshold (so a
\* product at its threshold is OK in each), and Remove and the admin stock
\* check notify for exactly the products that satisfy this predicate.
C8_OneStrictPredicate ==
    /\ last.op \in {"csv", "pdf", "xlsx"}
          => \A i \in 1..Len(last.rows) :
                /\ last.rows[i].status \in {"LOW", "OK"}
                /\ last.rows[i].status = "LOW" <=> Low(last.rows[i])
    /\ last.op \in {"index", "report"}
          => \A i \in 1..Len(last.rows) :
                (\E j \in 1..Len(last.low) : last.low[j] = last.rows[i])
                    <=> Low(last.rows[i])
    /\ last.op = "stock_check"
          => /\ \A j \in 1..Len(last.low) : Low(last.low[j])
             /\ last.result = "ok"
                   => \A i \in 1..Len(last.rows) :
                         Low(last.rows[i])
                            => \E j \in 1..Len(last.low) : last.low[j] = last.rows[i]
    /\ (last.op = "remove" /\ last.result \in {"committed", "ok", "crash"})
          => ((last.result = "committed" \/ last.calls = 1)
                 <=> Low(products[last.pid]))

C8_Witness ==
    /\ last.op = "pdf"
    /\ \E i \in 1..Len(last.rows) :
          /\ last.rows[i].quantity = last.rows[i].min_threshold
          /\ last.rows[i].status = "OK"
    /\ \E i \in 1..Len(last.rows) : last.rows[i].status = "LOW"

\* C9: as long as no Edit intervenes, the quantity of a product is its
\* quantity at creation plus the sum of the deltas of its movements: a new
\* product has no movements, every accepted Add(amount) appends exactly the
\* movement +amount and every accepted Remove(amount) exactly the movement
\* -amount, each changing the quantity by that delta, and no other request
\* changes the quantity or the ledger of a product that stays.
C9_QuantityFollowsLedger ==
    [][ /\ last'.op # "edit"
           => \A pid \in DOMAIN products \cap DOMAIN products' :
                 products'[pid].quantity - SumDeltas(movements', pid)
                    = products[pid].quantity - SumDeltas(movements, pid)
        /\ \A pid \in DOMAIN products' \ DOMAIN products :
              SumDeltas(movements', pid) = 0 /\ MovementsOf(pid)' = {}
        /\ (AllIdle /\ last'.op \in {"add", "remove"})
           => IF last'.result \in {"ok", "committed"}
              THEN /\ movements' = Append(movements,
                          Movement(last'.pid,
                                   IF last'.op = "add" THEN last'.amount
                                   ELSE 0 - last'.amount))
                   /\ products'[last'.pid].quantity
                         = products[last'.pid].quantity
                           + (IF last'.op = "add" THEN last'.amount
                              ELSE 0 - last'.amount)
              ELSE /\ movements' = movements
                   /\ products' = products ]_vars

C9_Witness ==
    /\ Len(movements) = 2
    /\ movements[1].product_id = movements[2].product_id
    /\ movements[1].delta > 0
    /\ movements[2].delta < 0
    /\ movements[1].product_id \in DOMAIN products

\* C10: a product whose allow_negative flag is false never has a negative
\* quantity.
C10_NoNegativeUnlessAllowed ==
    \A pid \in DOMAIN products :
        ~products[pid].allow_negative => products[pid].quantity >= 0
====
